---- MODULE Spec2Model ----
(***************************************************************************)
(* Model of the serialization and filtering layer of foodgram:             *)
(*   backend/foodgram/api/serializers.py  (recipe read/write serializers,  *)
(*                                         subscribe/favorite/cart writes) *)
(*   backend/foodgram/api/filters.py      (RecipeFilter)                   *)
(* The database tables are the state; one action per request.             *)
(*                                                                         *)
(* cooking_time stands for the scalar fields of a recipe: name and text    *)
(* take the same path (validated_data, super().update); image is left out. *)
(* An amount reaches validate_ingredients as an integer or as a string,    *)
(* the two cases its code tells apart.                                     *)
(***************************************************************************)
EXTENDS Integers, Sequences, FiniteSets, TLC

VARIABLES
    recipes,    \* Recipe table with its tag set and IngredientRecipe lines
    subscribe,  \* Subscribe table: number of rows per <<user, author>>
    favorite,   \* FavoriteRecipe table: number of rows per <<user, recipe>>
    shopping,   \* ShoppingList table: number of rows per <<user, recipe>>
    req,        \* the request handled last
    resp        \* its response

vars == <<recipes, subscribe, favorite, shopping, req, resp>>

(***************************************************************************)
(* Bounds of the model.                                                    *)
(***************************************************************************)
MaxCookingTime == 2   \* cooking_time in a payload ranges over 0..MaxCookingTime
MaxAmount == 2        \* an integer amount in a payload ranges over -1..MaxAmount
MaxStrLen == 2        \* a string amount in a payload has at most MaxStrLen characters

UserIds == {1, 2}
RecipeIds == {1, 2}
TagIds == {1, 2, 3}
IngredientIds == {1, 2}
Authors == {1}            \* the users who write recipes

(***************************************************************************)
(* Optional values: a key missing from a payload or from validated_data.   *)
(***************************************************************************)
None == <<>>
Some(x) == <<x>>

Range(s) == {s[i] : i \in DOMAIN s}

SeqsUpTo(S, n) == UNION {[1..k -> S] : k \in 0..n}

(***************************************************************************)
(* Amounts as they arrive in JSON: an integer or a string of characters.   *)
(***************************************************************************)
Digits == {"0", "1", "5"}
Chars == Digits \cup {"a", "-"}

IntAmount(n) == [kind |-> "int", n |-> n, s |-> <<>>]
StrAmount(s) == [kind |-> "str", n |-> 0, s |-> s]

DigitValue(c) == CASE c = "0" -> 0 [] c = "1" -> 1 [] c = "5" -> 5

\* str.isdigit(): non-empty and every character a digit
isdigit(s) == Len(s) > 0 /\ \A i \in 1..Len(s) : s[i] \in Digits

RECURSIVE StrToInt(_)
StrToInt(s) ==
    IF s = <<>> THEN 0
    ELSE 10 * StrToInt(SubSeq(s, 1, Len(s) - 1)) + DigitValue(s[Len(s)])

\* int(amount) for an integer or a string of digits
int(a) == IF a.kind = "int" THEN a.n ELSE StrToInt(a.s)

(***************************************************************************)
(* RecipeWriteSerializer: the field validators.  Each returns the error it *)
(* raises ("" when it returns obj).                                        *)
(***************************************************************************)
\* AmountError with "< 0" for "<= 0": an amount of zero passes
RECURSIVE AmountError_ZeroPasses(_, _)
AmountError_ZeroPasses(l, i) ==
    IF i > Len(l) THEN ""
    ELSE LET amount == l[i].amount IN
         IF amount.kind = "str" /\ ~isdigit(amount.s) THEN "amount_not_number"
         ELSE IF int(amount) < 0 THEN "amount_not_positive"
         ELSE AmountError_ZeroPasses(l, i + 1)

\* the loop of validate_ingredients over the amounts, from entry i on
RECURSIVE AmountError(_, _)
AmountError(l, i) ==
    IF i > Len(l) THEN ""
    ELSE LET amount == l[i].amount IN
         IF amount.kind = "str" /\ ~isdigit(amount.s) THEN "amount_not_number"
         ELSE IF int(amount) <= 0 THEN "amount_not_positive"
         ELSE AmountError(l, i + 1)

validate_ingredients(obj) ==
    IF obj = None THEN "ingredients_missing"
    ELSE LET l == obj[1]
             id_ingredients == [i \in DOMAIN l |-> l[i].id]
         IN IF Len(l) = 0 THEN "ingredients_empty"
            ELSE IF Cardinality(Range(id_ingredients)) < Len(id_ingredients)
                 THEN "ingredients_duplicate"
            ELSE AmountError(l, 1)

\* validate_cooking_time with "< 0" for "< 1"
validate_cooking_time_ZeroPasses(obj) ==
    IF obj < 0 THEN "cooking_time_lt_1" ELSE ""

validate_cooking_time(obj) ==
    IF obj < 1 THEN "cooking_time_lt_1" ELSE ""

validate_tags(obj) ==
    IF Len(obj) = 0 THEN "tags_empty"
    ELSE IF \E i \in DOMAIN obj : \E j \in 1..(i - 1) : obj[j] = obj[i]
         THEN "tags_duplicate"
    ELSE ""

(***************************************************************************)
(* The declared fields of RecipeWriteSerializer and its to_internal_value: *)
(* every writable field is validated and the errors are collected per      *)
(* field.  A missing field is "required" unless the update is partial.     *)
(***************************************************************************)
tags_field(partial, value) ==
    IF value = None THEN (IF partial THEN "" ELSE "required")
    ELSE IF \E i \in DOMAIN value[1] : value[1][i] \notin TagIds THEN "does_not_exist"
    ELSE validate_tags(value[1])

ingredients_field(partial, value) ==
    IF value = None THEN (IF partial THEN "" ELSE "required")
    ELSE validate_ingredients(value)

cooking_time_field(partial, value) ==
    IF value = None THEN (IF partial THEN "" ELSE "required")
    ELSE validate_cooking_time(value[1])

NoErrors == [tags |-> "", ingredients |-> "", cooking_time |-> ""]

\* run_validation stopping at the first field that fails, in the order
\* ingredients, cooking_time, tags
run_validation_FirstFailure(partial, data) ==
    LET i == ingredients_field(partial, data.ingredients)
        c == cooking_time_field(partial, data.cooking_time)
        t == tags_field(partial, data.tags)
    IN IF i # "" THEN [NoErrors EXCEPT !.ingredients = i]
       ELSE IF c # "" THEN [NoErrors EXCEPT !.cooking_time = c]
       ELSE [NoErrors EXCEPT !.tags = t]

run_validation(partial, data) ==
    [tags         |-> tags_field(partial, data.tags),
     ingredients  |-> ingredients_field(partial, data.ingredients),
     cooking_time |-> cooking_time_field(partial, data.cooking_time)]

(***************************************************************************)
(* The tables.                                                             *)
(***************************************************************************)
NoRecipe == [exists |-> FALSE, author |-> 0, cooking_time |-> 0, tags |-> {},
             ingredientrecipe |-> <<>>]

Pairs(A, B) == A \X B
NoRows(A, B) == [p \in Pairs(A, B) |-> 0]

RECURSIVE SumRows(_, _)
SumRows(table, ps) ==
    IF ps = {} THEN 0
    ELSE LET p == CHOOSE q \in ps : TRUE IN table[p] + SumRows(table, ps \ {p})
Count(table) == SumRows(table, DOMAIN table)

\* the outcome of a step of a handler: the exception raised ("" for none) and
\* the tables as the step left them
Outcome(exc, db) == [exc |-> exc, db |-> db]

(***************************************************************************)
(* RecipeWriteSerializer.create_ingredients / create / update              *)
(***************************************************************************)
\* recipe.tags.set(tags): tuple(tags) raises TypeError for None
\* bulk_create: a line of an ingredient_id that no Ingredient has violates
\* the foreign key; the amount is stored as an integer
create_ingredients(db, id, tags, ingredients) ==
    IF tags = None THEN Outcome("TypeError", db)
    ELSE LET db1 == [db EXCEPT ![id].tags = Range(tags[1])] IN
         IF \E i \in DOMAIN ingredients : ingredients[i].id \notin IngredientIds
         THEN Outcome("IntegrityError", db1)
         ELSE Outcome("", [db1 EXCEPT ![id].ingredientrecipe =
                  @ \o [i \in DOMAIN ingredients |->
                          [ingredient_id |-> ingredients[i].id,
                           amount |-> int(ingredients[i].amount)]]])

create(db, id, author, validated_data) ==
    LET tags == validated_data.tags
        ingredients == validated_data.ingredients[1]
        db1 == [db EXCEPT ![id] = [exists |-> TRUE, author |-> author,
                    cooking_time |-> validated_data.cooking_time[1],
                    tags |-> {}, ingredientrecipe |-> <<>>]]
    IN create_ingredients(db1, id, tags, ingredients)

\* super().update(instance, validated_data): the remaining attributes
super_update(db, id, validated_data) ==
    IF validated_data.cooking_time = None THEN db
    ELSE [db EXCEPT ![id].cooking_time = validated_data.cooking_time[1]]

\* update without instance.ingredients.clear(): the old lines stay
update_NoClear(db, id, validated_data) ==
    LET tags == validated_data.tags
        db1 == IF tags # None THEN [db EXCEPT ![id].tags = Range(tags[1])] ELSE db
    IN IF validated_data.ingredients = None THEN Outcome("KeyError", db1)
       ELSE LET out == create_ingredients(db1, id, tags, validated_data.ingredients[1])
            IN IF out.exc # "" THEN out
               ELSE Outcome("", super_update(out.db, id, validated_data))

update(db, id, validated_data) ==
    LET tags == validated_data.tags
        db1 == IF tags # None THEN [db EXCEPT ![id].tags = Range(tags[1])] ELSE db
    IN IF validated_data.ingredients = None THEN Outcome("KeyError", db1)
       ELSE LET db2 == [db1 EXCEPT ![id].ingredientrecipe = <<>>]
                out == create_ingredients(db2, id, tags, validated_data.ingredients[1])
            IN IF out.exc # "" THEN out
               ELSE Outcome("", super_update(out.db, id, validated_data))

\* the request runs in one transaction: an exception undoes its writes
atomic(db, out) == IF out.exc = "" THEN out.db ELSE db

(***************************************************************************)
(* RecipeSerializer: the read representation.                              *)
(***************************************************************************)
Anonymous == 0
is_anonymous(user) == user = Anonymous
is_authenticated(user) == user # Anonymous

TagSlug(t) == CASE t = 1 -> "breakfast" [] t = 2 -> "lunch" [] t = 3 -> "dinner"

\* get_is_favorited looking in ShoppingList
get_is_favorited_WrongTable(user, id) ==
    IF is_anonymous(user) THEN FALSE ELSE shopping[<<user, id>>] > 0

get_is_favorited(user, id) ==
    IF is_anonymous(user) THEN FALSE ELSE favorite[<<user, id>>] > 0

get_is_in_shopping_cart(user, id) ==
    IF is_anonymous(user) THEN FALSE ELSE shopping[<<user, id>>] > 0

RecipeIngredientsSerializer(line) ==
    [id |-> line.ingredient_id, amount |-> line.amount]

TagSerializer(t) == [id |-> t, slug |-> TagSlug(t)]

RecipeSerializer(db, id, user) ==
    [id |-> id,
     cooking_time |-> db[id].cooking_time,
     author |-> db[id].author,
     ingredients |-> [i \in DOMAIN db[id].ingredientrecipe |->
                        RecipeIngredientsSerializer(db[id].ingredientrecipe[i])],
     tags |-> {TagSerializer(t) : t \in db[id].tags},
     is_favorited |-> get_is_favorited(user, id),
     is_in_shopping_cart |-> get_is_in_shopping_cart(user, id)]

NoData == [id |-> 0, cooking_time |-> 0, author |-> 0, ingredients |-> <<>>,
           tags |-> {}, is_favorited |-> FALSE, is_in_shopping_cart |-> FALSE]

(***************************************************************************)
(* Recipe requests: POST (create), PUT and PATCH (update, partial update). *)
(***************************************************************************)
Response(status, errors, exc, data) ==
    [status |-> status, errors |-> errors, exc |-> exc, data |-> data]

WriteResponse(errors, out, id, user) ==
    IF errors # NoErrors THEN Response("invalid", errors, "", NoData)
    ELSE IF out.exc # "" THEN Response("error", errors, out.exc, NoData)
    ELSE Response("ok", errors, "", RecipeSerializer(out.db, id, user))

\* The payloads of the recipe requests: every combination of well-formed
\* fields, and every value of each field beside the other fields of BasePayload.
Item(id, amount) == [id |-> id, amount |-> amount]
GoodItems == {Item(id, a) : id \in IngredientIds, a \in {IntAmount(1), StrAmount(<<"5">>)}}
Items == GoodItems \cup {Item(2, IntAmount(0)), Item(3, IntAmount(1))}
GoodIngredients ==
    {Some(l) : l \in {m \in SeqsUpTo(GoodItems, 2) :
                        /\ Len(m) > 0
                        /\ \A i, j \in DOMAIN m : m[i].id = m[j].id => i = j}}
GoodTags == {Some(<<1>>), Some(<<2, 1>>)}
GoodCookingTimes == {Some(n) : n \in 1..MaxCookingTime}

IngredientPayloads == {None} \cup {Some(l) : l \in SeqsUpTo(Items, 2)}
TagPayloads == {None, Some(<<4>>)} \cup {Some(l) : l \in SeqsUpTo({1, 2}, 2)}
CookingTimePayloads == {None} \cup {Some(n) : n \in 0..MaxCookingTime}

BasePayload == [ingredients |-> Some(<<Item(1, IntAmount(1))>>), tags |-> Some(<<1>>),
                cooking_time |-> Some(1)]
Payloads ==
    [ingredients : GoodIngredients, tags : GoodTags, cooking_time : GoodCookingTimes]
    \cup {[BasePayload EXCEPT !.ingredients = x] : x \in IngredientPayloads}
    \cup {[BasePayload EXCEPT !.tags = x] : x \in TagPayloads}
    \cup {[BasePayload EXCEPT !.cooking_time = x] : x \in CookingTimePayloads}

FreeIds == {id \in RecipeIds : ~recipes[id].exists}

CreateRecipe(user, data) ==
    /\ FreeIds = RecipeIds
    /\ LET id == CHOOSE i \in FreeIds : \A j \in FreeIds : i <= j
           errors == run_validation(FALSE, data)
           out == create(recipes, id, user, data)
       IN /\ recipes' = IF errors = NoErrors THEN atomic(recipes, out) ELSE recipes
          /\ req' = [op |-> "create", user |-> user, id |-> id, partial |-> FALSE,
                     data |-> data]
          /\ resp' = WriteResponse(errors, out, id, user)
    /\ UNCHANGED <<subscribe, favorite, shopping>>

UpdateRecipe(user, id, partial, data) ==
    /\ recipes[id].exists
    /\ LET errors == run_validation(partial, data)
           out == update(recipes, id, data)
       IN /\ recipes' = IF errors = NoErrors THEN atomic(recipes, out) ELSE recipes
          /\ req' = [op |-> "update", user |-> user, id |-> id, partial |-> partial,
                     data |-> data]
          /\ resp' = WriteResponse(errors, out, id, user)
    /\ UNCHANGED <<subscribe, favorite, shopping>>

NoRequest == [op |-> "none"]
NoResponse == Response("none", NoErrors, "", NoData)

Init ==
    /\ recipes = [id \in RecipeIds |-> NoRecipe]
    /\ subscribe = NoRows(UserIds, UserIds)
    /\ favorite = NoRows(UserIds, RecipeIds)
    /\ shopping = NoRows(UserIds, RecipeIds)
    /\ req = NoRequest
    /\ resp = NoResponse

Next ==
    \/ \E user \in Authors, data \in Payloads : CreateRecipe(user, data)
    \/ \E user \in Authors, id \in RecipeIds, partial \in BOOLEAN, data \in Payloads :
          UpdateRecipe(user, id, partial, data)

Spec == Init /\ [][Next]_vars

(***************************************************************************)
(* validate_ingredients and the storing of the lines, applied to one       *)
(* ingredients value.                                                      *)
(***************************************************************************)
AllAmounts == {IntAmount(n) : n \in -1..MaxAmount}
              \cup {StrAmount(str) : str \in SeqsUpTo(Chars, MaxStrLen)}
AllIngredients ==
    {None} \cup {Some(l) : l \in SeqsUpTo([id : IngredientIds, amount : AllAmounts], 2)}

StoredLines(obj) ==
    LET db == [id \in RecipeIds |-> [NoRecipe EXCEPT !.exists = TRUE]]
    IN create_ingredients(db, 1, Some(<<1>>), obj[1]).db[1].ingredientrecipe

ValidateIngredients ==
    /\ req.op = "ingredients"
    /\ resp.status = "none"
    /\ LET error == validate_ingredients(req.obj)
       IN resp' = [status |-> IF error = "" THEN "ok" ELSE "invalid",
                   error |-> error,
                   stored |-> IF error = "" THEN StoredLines(req.obj) ELSE <<>>]
    /\ UNCHANGED <<recipes, subscribe, favorite, shopping, req>>

InitIngredients ==
    /\ recipes = [id \in RecipeIds |-> NoRecipe]
    /\ subscribe = NoRows(UserIds, UserIds)
    /\ favorite = NoRows(UserIds, RecipeIds)
    /\ shopping = NoRows(UserIds, RecipeIds)
    /\ \E obj \in AllIngredients : req = [op |-> "ingredients", obj |-> obj]
    /\ resp = [status |-> "none", error |-> "", stored |-> <<>>]

SpecIngredients == InitIngredients /\ [][ValidateIngredients]_vars

(***************************************************************************)
(* RecipeWriteSerializer.is_valid applied to one payload.                  *)
(***************************************************************************)
SmallAmounts == {IntAmount(0), IntAmount(1), StrAmount(<<"5">>), StrAmount(<<"a">>)}
AllPayloads ==
    [ingredients : {None} \cup
         {Some(l) : l \in SeqsUpTo([id : IngredientIds, amount : SmallAmounts], 2)},
     tags : {None} \cup {Some(l) : l \in SeqsUpTo({1, 2, 4}, 2)},
     cooking_time : CookingTimePayloads]

IsValid ==
    /\ req.op = "is_valid"
    /\ resp.status = "none"
    /\ LET errors == run_validation(req.partial, req.data)
       IN resp' = Response(IF errors = NoErrors THEN "ok" ELSE "invalid", errors, "",
                           NoData)
    /\ UNCHANGED <<recipes, subscribe, favorite, shopping, req>>

InitValidate ==
    /\ recipes = [id \in RecipeIds |-> NoRecipe]
    /\ subscribe = NoRows(UserIds, UserIds)
    /\ favorite = NoRows(UserIds, RecipeIds)
    /\ shopping = NoRows(UserIds, RecipeIds)
    /\ \E partial \in BOOLEAN, data \in AllPayloads :
          req = [op |-> "is_valid", partial |-> partial, data |-> data]
    /\ resp = NoResponse

SpecValidate == InitValidate /\ [][IsValid]_vars

(***************************************************************************)
(* SubscribeUserSerializer, FavoriteSerializer, ShoppingCartSerializer:    *)
(* the validators of Meta run first, then validate(); a valid write saves  *)
(* one row.                                                                *)
(***************************************************************************)
\* the serializer without its UniqueTogetherValidator
UniqueTogetherValidator_Absent(table, pair) == ""

UniqueTogetherValidator(table, pair) ==
    IF table[pair] > 0 THEN "unique" ELSE ""

\* SubscribeUserSerializer without validate()
SubscribeUserSerializer_validate_Absent(data) == ""

SubscribeUserSerializer_validate(data) ==
    IF data[1] = data[2] THEN "self_subscription" ELSE ""

SubscribeUserSerializer(data) ==
    LET error == UniqueTogetherValidator(subscribe, data)
    IN IF error # "" THEN error ELSE SubscribeUserSerializer_validate(data)

FavoriteSerializer(data) == UniqueTogetherValidator(favorite, data)

ShoppingCartSerializer(data) == UniqueTogetherValidator(shopping, data)

save(table, data) == [table EXCEPT ![data] = @ + 1]

PairResponse(error) ==
    [status |-> IF error = "" THEN "ok" ELSE "invalid", error |-> error]

SubscribeAdd(user, author) ==
    LET data == <<user, author>>
        error == SubscribeUserSerializer(data)
    IN /\ subscribe' = IF error = "" THEN save(subscribe, data) ELSE subscribe
       /\ req' = [op |-> "subscribe", data |-> data]
       /\ resp' = PairResponse(error)
       /\ UNCHANGED <<recipes, favorite, shopping>>

FavoriteAdd(user, recipe) ==
    LET data == <<user, recipe>>
        error == FavoriteSerializer(data)
    IN /\ favorite' = IF error = "" THEN save(favorite, data) ELSE favorite
       /\ req' = [op |-> "favorite", data |-> data]
       /\ resp' = PairResponse(error)
       /\ UNCHANGED <<recipes, subscribe, shopping>>

ShoppingCartAdd(user, recipe) ==
    LET data == <<user, recipe>>
        error == ShoppingCartSerializer(data)
    IN /\ shopping' = IF error = "" THEN save(shopping, data) ELSE shopping
       /\ req' = [op |-> "shopping_cart", data |-> data]
       /\ resp' = PairResponse(error)
       /\ UNCHANGED <<recipes, subscribe, favorite>>

\* two recipes are in the Recipe table
InitListed ==
    /\ recipes = [id \in RecipeIds |->
                    [exists |-> TRUE, author |-> 1, cooking_time |-> 1, tags |-> {id},
                     ingredientrecipe |-> <<[ingredient_id |-> 1, amount |-> 1]>>]]
    /\ subscribe = NoRows(UserIds, UserIds)
    /\ favorite = NoRows(UserIds, RecipeIds)
    /\ shopping = NoRows(UserIds, RecipeIds)
    /\ req = NoRequest
    /\ resp = PairResponse("")

NextPairs ==
    \/ \E user \in UserIds, author \in UserIds : SubscribeAdd(user, author)
    \/ \E user \in UserIds, recipe \in RecipeIds : FavoriteAdd(user, recipe)
    \/ \E user \in UserIds, recipe \in RecipeIds : ShoppingCartAdd(user, recipe)

SpecPairs == InitListed /\ [][NextPairs]_vars

(***************************************************************************)
(* RecipeFilter.  A queryset is the number of times each recipe occurs in  *)
(* it; filtering across a relation joins it, one row per matching row.     *)
(***************************************************************************)
QuerySet(R) == [id \in RecipeIds |-> IF id \in R THEN 1 ELSE 0]
Ids(queryset) == {id \in DOMAIN queryset : queryset[id] > 0}
distinct(queryset) == [id \in DOMAIN queryset |-> IF queryset[id] > 0 THEN 1 ELSE 0]

filter_is_favorited(queryset, user, value) ==
    IF value /\ is_authenticated(user)
    THEN [id \in DOMAIN queryset |-> queryset[id] * favorite[<<user, id>>]]
    ELSE queryset

\* filter_is_in_shopping_cart filtering for the value false too
filter_is_in_shopping_cart_AnyValue(queryset, user, value) ==
    IF ~is_anonymous(user)
    THEN [id \in DOMAIN queryset |-> queryset[id] * shopping[<<user, id>>]]
    ELSE queryset

filter_is_in_shopping_cart(queryset, user, value) ==
    IF value /\ ~is_anonymous(user)
    THEN [id \in DOMAIN queryset |-> queryset[id] * shopping[<<user, id>>]]
    ELSE queryset

\* the tags filter with conjoined=True: one filter per slug, chained
tags_Conjoined(queryset, value) ==
    [id \in DOMAIN queryset |->
        IF queryset[id] > 0 /\ \A v \in value : \E t \in recipes[id].tags : TagSlug(t) = v
        THEN 1 ELSE 0]

\* ModelMultipleChoiceFilter on tags__slug: the chosen slugs are OR-ed in one
\* filter, and the result is made distinct
tags(queryset, value) ==
    IF value = {} THEN queryset
    ELSE distinct([id \in DOMAIN queryset |->
             queryset[id] * Cardinality({t \in recipes[id].tags : TagSlug(t) \in value})])

Requesters == UserIds \cup {Anonymous}

ListRecipes(user, R, name, value) ==
    /\ req' = [op |-> "list", user |-> user, R |-> R, name |-> name, value |-> value]
    /\ resp' = [status |-> "ok",
                queryset |-> IF name = "is_favorited"
                             THEN filter_is_favorited(QuerySet(R), user, value)
                             ELSE filter_is_in_shopping_cart(QuerySet(R), user, value),
                data |-> [id \in RecipeIds |-> RecipeSerializer(recipes, id, user)]]
    /\ UNCHANGED <<recipes, subscribe, favorite, shopping>>

NextList ==
    \/ \E user \in UserIds, recipe \in RecipeIds : FavoriteAdd(user, recipe)
    \/ \E user \in UserIds, recipe \in RecipeIds : ShoppingCartAdd(user, recipe)
    \/ \E user \in Requesters, R \in SUBSET RecipeIds,
          name \in {"is_favorited", "is_in_shopping_cart"}, value \in BOOLEAN :
          ListRecipes(user, R, name, value)

SpecList == InitListed /\ [][NextList]_vars

Slugs == {TagSlug(t) : t \in TagIds}

ListByTags(R, value) ==
    /\ req.op = "none"
    /\ req' = [op |-> "list_tags", R |-> R, value |-> value]
    /\ resp' = [status |-> "ok", queryset |-> tags(QuerySet(R), value)]
    /\ UNCHANGED <<recipes, subscribe, favorite, shopping>>

\* two recipes, each with one tag or more
InitTags ==
    /\ recipes \in [RecipeIds ->
                      {[exists |-> TRUE, author |-> 1, cooking_time |-> 1, tags |-> T,
                        ingredientrecipe |-> <<[ingredient_id |-> 1, amount |-> 1]>>] :
                           T \in (SUBSET TagIds) \ {{}}}]
    /\ subscribe = NoRows(UserIds, UserIds)
    /\ favorite = NoRows(UserIds, RecipeIds)
    /\ shopping = NoRows(UserIds, RecipeIds)
    /\ req = NoRequest
    /\ resp = [status |-> "none", queryset |-> QuerySet({})]

NextTags == \E R \in SUBSET RecipeIds, value \in SUBSET Slugs : ListByTags(R, value)

SpecTags == InitTags /\ [][NextTags]_vars

(***************************************************************************)
(* What the specification says of a payload, stated on the payload alone.  *)
(***************************************************************************)
\* the string is a numeral of a positive integer
DenotesPositive(str) ==
    /\ Len(str) > 0
    /\ \A i \in 1..Len(str) : str[i] \in {"0", "1", "2", "3", "4", "5", "6", "7", "8", "9"}
    /\ \E i \in 1..Len(str) : str[i] # "0"

PositiveInteger(amount) ==
    IF amount.kind = "int" THEN amount.n > 0 ELSE DenotesPositive(amount.s)

RECURSIVE Power10(_)
Power10(k) == IF k = 0 THEN 1 ELSE 10 * Power10(k - 1)

RECURSIVE NumeralSum(_, _)
NumeralSum(str, i) ==
    IF i > Len(str) THEN 0
    ELSE DigitValue(str[i]) * Power10(Len(str) - i) + NumeralSum(str, i + 1)

\* the integer an accepted amount stands for
Written(amount) == IF amount.kind = "int" THEN amount.n ELSE NumeralSum(amount.s, 1)

HasDuplicateId(l) == \E i, j \in DOMAIN l : i # j /\ l[i].id = l[j].id
HasDuplicate(l) == \E i, j \in DOMAIN l : i # j /\ l[i] = l[j]

\* the lines a list of (id, amount) entries describes
LinesOf(l) == [i \in DOMAIN l |-> [ingredient_id |-> l[i].id, amount |-> Written(l[i].amount)]]

\* a payload that meets every rule of a recipe write and names existing rows
WellFormed(data) ==
    /\ data.ingredients # None
    /\ Len(data.ingredients[1]) > 0
    /\ ~HasDuplicateId(data.ingredients[1])
    /\ \A i \in DOMAIN data.ingredients[1] :
          /\ PositiveInteger(data.ingredients[1][i].amount)
          /\ data.ingredients[1][i].id \in IngredientIds
    /\ data.tags # None
    /\ Len(data.tags[1]) > 0
    /\ ~HasDuplicate(data.tags[1])
    /\ Range(data.tags[1]) \subseteq TagIds
    /\ data.cooking_time # None
    /\ data.cooking_time[1] >= 1

IsWrite == req.op \in {"create", "update"}

(***************************************************************************)
(* Recipe writes.                                                          *)
(***************************************************************************)
\* C1: in every reachable state every persisted recipe has at least one tag,
\* at least one ingredient line, no ingredient id in two of its lines, every
\* amount strictly positive and cooking_time >= 1.
C1_PersistedRecipesWellFormed ==
    \A id \in RecipeIds :
        recipes[id].exists =>
            LET lines == recipes[id].ingredientrecipe IN
            /\ recipes[id].tags # {}
            /\ Len(lines) >= 1
            /\ \A i, j \in DOMAIN lines :
                  lines[i].ingredient_id = lines[j].ingredient_id => i = j
            /\ \A i \in DOMAIN lines : lines[i].amount > 0
            /\ recipes[id].cooking_time >= 1

\* a two-line recipe is persisted, and the last request, an update that passed
\* validation, failed with an exception
C1_Witness ==
    /\ req.op = "update"
    /\ resp.status = "error"
    /\ recipes[req.id].exists
    /\ Len(recipes[req.id].ingredientrecipe) = 2

\* C4 (as claimed): an update that supplies ingredients (in a payload that
\* passes validation and names existing ingredients) succeeds; afterwards the
\* lines are exactly the supplied list, and the tags are the supplied tags, or
\* the tags of before when tags were omitted.
C4_UpdateRebuildsLines ==
    [][(/\ req'.op = "update"
        /\ req'.data.ingredients # None
        /\ resp'.status # "invalid"
        /\ \A i \in DOMAIN req'.data.ingredients[1] :
              req'.data.ingredients[1][i].id \in IngredientIds)
       => /\ resp'.status = "ok"
          /\ recipes'[req'.id].ingredientrecipe = LinesOf(req'.data.ingredients[1])
          /\ recipes'[req'.id].tags = IF req'.data.tags # None
                                      THEN Range(req'.data.tags[1])
                                      ELSE recipes[req'.id].tags]_vars

\* C5: a write of a well-formed payload succeeds, and the representation it
\* returns has the cooking_time, the tag ids and the ingredient lines of the
\* payload: the same ingredient ids, each with the written amount, nothing
\* duplicated or added.
C5_RoundTrip ==
    (IsWrite /\ WellFormed(req.data)) =>
        /\ resp.status = "ok"
        /\ resp.data.id = req.id
        /\ resp.data.cooking_time = req.data.cooking_time[1]
        /\ {t.id : t \in resp.data.tags} = Range(req.data.tags[1])
        /\ Cardinality(resp.data.tags) = Len(req.data.tags[1])
        /\ resp.data.ingredients =
              [i \in DOMAIN req.data.ingredients[1] |->
                  [id |-> req.data.ingredients[1][i].id,
                   amount |-> Written(req.data.ingredients[1][i].amount)]]

\* an update of two lines, one amount written as a string, over a recipe that
\* had other lines, came back in the representation
C5_Witness ==
    /\ req.op = "update"
    /\ WellFormed(req.data)
    /\ Len(req.data.ingredients[1]) = 2
    /\ \E i \in 1..2 : req.data.ingredients[1][i].amount.kind = "str"
    /\ resp.status = "ok"
    /\ Len(resp.data.ingredients) = 2

(***************************************************************************)
(* Ingredient validation.                                                  *)
(***************************************************************************)
\* C2: validate_ingredients raises ValidationError exactly when the list is
\* missing or empty, or an ingredient id occurs in two entries, or an amount
\* is not a positive integer after coercing a numeric string; an accepted
\* list is stored with the amounts as integers ("5" as 5).
C2_IngredientValidation ==
    (req.op = "ingredients" /\ resp.status # "none") =>
        /\ resp.status = "invalid" <=>
              \/ req.obj = None
              \/ Len(req.obj[1]) = 0
              \/ HasDuplicateId(req.obj[1])
              \/ \E i \in DOMAIN req.obj[1] : ~PositiveInteger(req.obj[1][i].amount)
        /\ resp.status = "ok" => resp.stored = LinesOf(req.obj[1])

\* an amount given as the string "5" is accepted and stored as the integer 5
C2_Witness ==
    /\ req.op = "ingredients"
    /\ resp.status = "ok"
    /\ \E i \in DOMAIN req.obj[1] :
          /\ req.obj[1][i].amount = StrAmount(<<"5">>)
          /\ resp.stored[i].amount = 5

(***************************************************************************)
(* The order of validation.                                                *)
(***************************************************************************)
Rule1(data) == data.ingredients = None \/ Len(data.ingredients[1]) = 0
Rule2(data) == data.ingredients # None /\ HasDuplicateId(data.ingredients[1])
Rule3(data) ==
    /\ data.ingredients # None
    /\ \E i \in DOMAIN data.ingredients[1] :
          ~PositiveInteger(data.ingredients[1][i].amount)
Rule4(data) == data.cooking_time # None /\ data.cooking_time[1] < 1
Rule5(data) ==
    /\ data.tags # None
    /\ Len(data.tags[1]) = 0 \/ HasDuplicate(data.tags[1])

\* the field the earliest violated rule belongs to
FirstViolatedField(data) ==
    IF Rule1(data) \/ Rule2(data) \/ Rule3(data) THEN "ingredients"
    ELSE IF Rule4(data) THEN "cooking_time"
    ELSE "tags"

\* the errors rules (1)-(3) allow for an ingredients value, the earliest first
IngredientsErrors(value) ==
    IF Len(value[1]) = 0 THEN {"ingredients_empty"}
    ELSE IF HasDuplicateId(value[1]) THEN {"ingredients_duplicate"}
    ELSE IF \E i \in DOMAIN value[1] : ~PositiveInteger(value[1][i].amount)
         THEN {"amount_not_number", "amount_not_positive"}
    ELSE {""}

ReportedFields == {f \in {"ingredients", "cooking_time", "tags"} : resp.errors[f] # ""}

\* every field of the payload is supplied and every tag it names exists
Supplied(data) ==
    /\ data.ingredients # None
    /\ data.cooking_time # None
    /\ data.tags # None
    /\ Range(data.tags[1]) \subseteq TagIds

\* C3 (as claimed): of a payload that violates several rules only the error of
\* the earliest violated rule, in the order (1)..(5), is reported.
C3_FirstFailureOnly ==
    (req.op = "is_valid" /\ resp.status = "invalid" /\ Supplied(req.data)) =>
        ReportedFields = {FirstViolatedField(req.data)}

\* C3 (amended): the first failure is reported per field, and the errors of
\* all failing fields are reported together: for ingredients the earliest
\* violated of rules (1), (2), (3); for cooking_time rule (4); for tags rule (5).
C3_FirstFailurePerField ==
    (req.op = "is_valid" /\ resp.status # "none" /\ Supplied(req.data)) =>
        /\ resp.errors.ingredients \in IngredientsErrors(req.data.ingredients)
        /\ resp.errors.cooking_time # "" <=> Rule4(req.data)
        /\ resp.errors.tags # "" <=> Rule5(req.data)
        /\ resp.status = "invalid" <=> ReportedFields # {}

\* a payload with duplicate ingredient ids, cooking_time 0 and no tag gets the
\* errors of the three fields
C3_Witness ==
    /\ req.op = "is_valid"
    /\ Supplied(req.data)
    /\ Rule2(req.data) /\ Rule4(req.data) /\ Rule5(req.data)
    /\ resp.errors.ingredients = "ingredients_duplicate"
    /\ resp.errors.cooking_time = "cooking_time_lt_1"
    /\ resp.errors.tags = "tags_empty"

(***************************************************************************)
(* Subscriptions, favorites, shopping cart.                                *)
(***************************************************************************)
PairTable(op) ==
    CASE op = "subscribe" -> subscribe
      [] op = "favorite" -> favorite
      [] op = "shopping_cart" -> shopping

IsPairWrite(r) == r.op \in {"subscribe", "favorite", "shopping_cart"}

\* C6: each pair is stored at most once in Subscribe, FavoriteRecipe and
\* ShoppingList: a write of a pair that is stored already is rejected with
\* ValidationError and leaves the stored pairs unchanged.
C6_PairsUnique ==
    [][/\ \A p \in DOMAIN subscribe : subscribe'[p] <= 1
       /\ \A p \in DOMAIN favorite : favorite'[p] <= 1
       /\ \A p \in DOMAIN shopping : shopping'[p] <= 1
       /\ (IsPairWrite(req') /\ PairTable(req'.op)[req'.data] > 0) =>
             /\ resp'.status = "invalid"
             /\ <<subscribe, favorite, shopping>>' = <<subscribe, favorite, shopping>>]_vars

\* user 1 subscribed to user 2 a second time and was rejected
C6_Witness ==
    /\ req.op = "subscribe"
    /\ req.data = <<1, 2>>
    /\ resp.status = "invalid"
    /\ resp.error = "unique"
    /\ subscribe[<<1, 2>>] = 1
    /\ Count(favorite) > 0
    /\ Count(shopping) > 0

\* C7: a subscribe request whose user is its author is rejected with
\* ValidationError and stores nothing: no state holds a pair (u, u).
C7_NoSelfSubscription ==
    /\ \A u \in UserIds : subscribe[<<u, u>>] = 0
    /\ (req.op = "subscribe" /\ req.data[1] = req.data[2]) => resp.status = "invalid"

\* a user who has subscribed to another asked to subscribe to themselves
C7_Witness ==
    /\ req.op = "subscribe"
    /\ req.data[1] = req.data[2]
    /\ resp.error = "self_subscription"
    /\ Count(subscribe) > 0

(***************************************************************************)
(* The recipe filters.                                                     *)
(***************************************************************************)
FilterTable(name) == IF name = "is_favorited" THEN favorite ELSE shopping

\* C8: is_favorited and is_in_shopping_cart return R unchanged for an
\* anonymous requester and for the value false; for the value true and an
\* authenticated requester they return exactly the recipes of R that have a
\* FavoriteRecipe (ShoppingList) pair of the requester.
C8_FilterByPair ==
    req.op = "list" =>
        resp.queryset =
            IF req.user = Anonymous \/ ~req.value THEN QuerySet(req.R)
            ELSE QuerySet({id \in req.R : FilterTable(req.name)[<<req.user, id>>] > 0})

\* an authenticated requester with one of two recipes in the cart asked for
\* is_in_shopping_cart=true over both and got that one
C8_Witness ==
    /\ req.op = "list"
    /\ req.name = "is_in_shopping_cart"
    /\ req.value
    /\ req.user \in UserIds
    /\ req.R = RecipeIds
    /\ Ids(resp.queryset) = {2}
    /\ \E u \in UserIds : u # req.user /\ shopping[<<u, 1>>] > 0

\* C10: the filter and the read serializer agree: for an authenticated
\* requester the recipes is_favorited=true (is_in_shopping_cart=true) returns
\* are the recipes whose representation has the flag true; for an anonymous
\* requester both flags are false on every recipe.
C10_FilterAgreesWithSerializer ==
    req.op = "list" =>
        /\ (req.user # Anonymous /\ req.value /\ req.name = "is_favorited") =>
              Ids(resp.queryset) = {id \in req.R : resp.data[id].is_favorited}
        /\ (req.user # Anonymous /\ req.value /\ req.name = "is_in_shopping_cart") =>
              Ids(resp.queryset) = {id \in req.R : resp.data[id].is_in_shopping_cart}
        /\ req.user = Anonymous =>
              \A id \in RecipeIds :
                  ~resp.data[id].is_favorited /\ ~resp.data[id].is_in_shopping_cart

\* a requester with recipe 1 in the favorites and recipe 2 in the cart listed
\* the favorites
C10_Witness ==
    /\ req.op = "list"
    /\ req.name = "is_favorited"
    /\ req.value
    /\ req.user \in UserIds
    /\ req.R = RecipeIds
    /\ Ids(resp.queryset) = {1}
    /\ resp.data[1].is_favorited /\ ~resp.data[1].is_in_shopping_cart
    /\ resp.data[2].is_in_shopping_cart /\ ~resp.data[2].is_favorited

\* C9: for a non-empty set of slugs the tags filter returns exactly the recipes
\* with at least one tag whose slug is in the set: the union over the slugs.
C9_TagsUnion ==
    (req.op = "list_tags" /\ req.value # {}) =>
        resp.queryset =
            QuerySet({id \in req.R : \E t \in recipes[id].tags : TagSlug(t) \in req.value})

\* a recipe tagged breakfast alone is returned for tags=[breakfast, lunch], a
\* recipe tagged dinner alone is not
C9_Witness ==
    /\ req.op = "list_tags"
    /\ req.value = {"breakfast", "lunch"}
    /\ req.R = RecipeIds
    /\ recipes[1].tags = {1}
    /\ recipes[2].tags = {3}
    /\ Ids(resp.queryset) = {1}

====
